---- MODULE Spec2Model ----
(***************************************************************************)
(* A model of memgpt/client/client.py: the remote (RESTClient) strategy    *)
(* against an arbitrary HTTP backend, its blocking file-ingestion poller,  *)
(* its adapters and the argument checks of agent_exists and create_agent;  *)
(* and the embedded (LocalClient) strategy: construction against the       *)
(* metadata store, the calls through the queuing interface, create_agent.  *)
(*                                                                         *)
(* The backend is an external collaborator: every response it gives is a   *)
(* nondeterministic choice (status code and body), and the job backend     *)
(* answers status queries from a script fixed when the upload is accepted. *)
(* The metadata store, the queuing interface and the embedded server are   *)
(* collaborators too, modelled by what the specification says of them.     *)
(*                                                                         *)
(* Spec and FairSpec run the remote strategy one call at a time; LocalSpec *)
(* runs construction and the operations a strategy lacks; AgentSpec runs   *)
(* construction and the calls that change the agents of the store;         *)
(* SerialSpec and ConcSpec run the calls that use the queuing interface,   *)
(* in turns and interleaved.                                               *)
(***************************************************************************)
EXTENDS Integers, Sequences, FiniteSets, TLC

\* ------------------------------------------------------------------ bounds

\* Longest finite run of non-terminal status answers a scripted backend
\* gives before its terminal answer.
MaxRunning == 3

\* The query and sleep counters saturate here; every finite script ends at
\* query MaxRunning + 1 at the latest, so below saturation they are exact.
MaxCount == MaxRunning + 2

\* ------------------------------------------------------------ program data

\* Python's None, and str(None) as it appears in a formatted URL.
None == "None"

\* response.status_code values the code compares against.
HTTP_OK == 200
HTTP_NOT_FOUND == 404

\* Status codes a backend may answer with: the two the code names, one other
\* success-class code and one server error.
StatusCodes == {HTTP_OK, 202, HTTP_NOT_FOUND, 500}

\* JobStatus: the code names JobStatus.completed and JobStatus.failed; the
\* non-terminal members are those the specification lists.
JobStatus == {"pending", "running", "completed", "failed"}
TerminalStatus == {"completed", "failed"}
NonTerminalStatus == JobStatus \ TerminalStatus

\* Job.metadata: free-form; a dict is a tuple of key and value here.
Metadata == {<<>>, <<"reason", "bad encoding">>, <<"reason", "disk full">>}

JobIds == {"job-1"}
SourceIds == {"src-1"}

\* A JobModel as built by JobModel(**response.json()).
Jobs == [id : JobIds, status : JobStatus, metadata : Metadata]
NoJob == [id |-> None, status |-> None, metadata |-> <<>>]

\* ---------------------------------------------------------------- HTTP

\* RESTClient.__init__: the base URL and the header set fixed at construction.
Headers(token) == [accept |-> "application/json", authorization |-> <<"Bearer ", token>>]
RESTClient(base_url, token) == [base_url |-> base_url, headers |-> Headers(token)]
Clients == {RESTClient("http://a", "tok-a"), RESTClient("http://b", "tok-b")}

\* requests.<method>(url, headers=self.headers): the request as issued.
Request(c, method, url) == [method |-> method, url |-> url, headers |-> c.headers]

\* A response body: JSON that fits the wire model of the endpoint ("model"),
\* JSON of another shape such as an error detail ("detail"), or JSON null.
GenericBodies == [shape : {"model", "detail", "null"}, data : {"d1", "d2"}]
JobBodies == [shape : {"model"}, job : Jobs]
ErrorBodies == [shape : {"detail"}, data : {"d1", "d2"}]
NoResponse == [code |-> 0, body |-> [shape |-> "null", data |-> None]]

\* ------------------------------------------------------------- outcomes

\* How a call ends: a returned value or a raised exception with its message.
\* Returned values are records, so that any two outcomes can be compared.
NoOutcome == [kind |-> "none"]
Return(v) == [kind |-> "return", value |-> v]
Raise(exc, msg) == [kind |-> "raise", exc |-> exc, msg |-> msg]
PyNone == [type |-> "NoneType"]
PyBool(b) == [type |-> "bool", val |-> b]

\* A message without interpolation.
Text(prefix) == [prefix |-> prefix]

\* f"<prefix>{response.text}": the literal part and the interpolated body.
Message(prefix, text) == [prefix |-> prefix, text |-> text]

\* Model(**response.json()): a pydantic model built from a body. A body of
\* another shape fails validation; a null body cannot be unpacked.
Parse(type, body) ==
    CASE body.shape = "model" -> Return([type |-> type, from |-> body])
      [] body.shape = "detail" -> Raise("ValidationError", [model |-> type])
      [] OTHER -> Raise("TypeError", [model |-> type])

\* ---------------------------------------------------------------- state

VARIABLES
    client,     \* the RESTClient: base_url and headers, fixed at construction
    pc,         \* "idle" | "polling" | "sleeping" | "done": position of the call
    op,         \* the operation of the current (or last) call
    args,       \* its arguments
    sent,       \* the backend requests it has issued (HTTP requests, or calls of
                \* the embedded server), status polls excluded
    resp,       \* the last response the backend gave it
    outcome,    \* how it ended: NoOutcome while it runs
    job,        \* load_file_into_source's local variable job
    script,     \* the job backend's answers to the status queries of this job
    queries,    \* status queries issued by this call (saturating at MaxCount)
    sleeps,     \* time.sleep(1) calls made by this call (saturating at MaxCount)
    pager,      \* a caller paging through archival memory: cursor and pages so far
    ms,         \* the metadata store: user records, default presets, agents
    local,      \* the LocalClient objects: user_id, auto_save, how __init__ ended
    interface,  \* the QueuingInterface buffers, by interface handle
    call,       \* the LocalClient call each calling thread is in
    serial      \* TRUE when the callers make one LocalClient call at a time

\* The state of the embedded strategy.
localVars == <<ms, local, interface, call, serial>>

vars == <<client, pc, op, args, sent, resp, outcome, job, script, queries, sleeps,
          pager, ms, local, interface, call, serial>>

Inc(n) == IF n < MaxCount THEN n + 1 ELSE n

\* ------------------------------------------------------ the job backend

\* A fake job backend: it answers the first k status queries with a
\* non-terminal status and every later one with the terminal status final
\* (metadata meta), or never leaves the non-terminal statuses (forever).
\* Query number garble, when not 0, is answered with a body that is no job.
NoScript == [forever |-> FALSE, k |-> 0, final |-> None, meta |-> <<>>, garble |-> 0]
FiniteScripts ==
    [forever : {FALSE}, k : 0..MaxRunning, final : TerminalStatus,
     meta : Metadata \ {<<>>}, garble : {0, 2}]
ForeverScripts ==
    [forever : {TRUE}, k : {0}, final : {None}, meta : {<<>>}, garble : {0, 2}]
Scripts == FiniteScripts \cup ForeverScripts

\* The bodies the scripted backend may give to status query number n for job id.
ScriptedBodies(s, id, n) ==
    IF s.garble = n
    THEN ErrorBodies
    ELSE IF s.forever \/ n <= s.k
         THEN {[shape |-> "model", job |-> [id |-> id, status |-> st, metadata |-> <<>>]] :
                   st \in NonTerminalStatus}
         ELSE {[shape |-> "model", job |-> [id |-> id, status |-> s.final, metadata |-> s.meta]]}

\* The script reaches its terminal answer: it is finite and not cut short by
\* a garbled answer.
ReportsTerminal(s) == ~s.forever /\ (s.garble = 0 \/ s.garble > s.k + 1)

\* ------------------------------------------- RESTClient.load_file_into_source

\* get_job_status: no status check; the body is parsed whatever the code.
get_job_status(r) == Parse("JobModel", r.body)


\* A slip: the upload handled as get_job_status handles its response, with no
\* status check.
UploadResult_Unchecked(r) == Parse("JobModel", r.body)

\* The upload's status check and the parse of its body.
UploadResult(r) ==
    IF r.code # HTTP_OK
    THEN Raise("ValueError", Message("Failed to upload file to source: ", r.body))
    ELSE Parse("JobModel", r.body)


\* A slip: the blocking flag is ignored and every call polls.
EntersLoop_Always(blocking) == TRUE

\* if blocking: enter the loop; else fall through to return job.
EntersLoop(blocking) == blocking


\* A slip: the loop sleeps before its first status query.
LoopEntry_SleepFirst == "sleeping"

\* while True: the first statement of the loop body is the status query.
LoopEntry == "polling"


\* A slip: the failure is raised without the job's metadata.
JobFailed_NoMetadata(j) ==
    Raise("ValueError", [prefix |-> "Job failed: ", metadata |-> <<>>])

\* raise ValueError(f"Job failed: {job.metadata}"): the literal part and the
\* interpolated metadata.
JobFailed(j) ==
    Raise("ValueError", [prefix |-> "Job failed: ", metadata |-> j.metadata])


\* A slip: any terminal status ends the loop by break.
PollDecision_BreakOnFailed(j) ==
    IF j.status \in {"completed", "failed"} THEN "break" ELSE "sleep"

\* A slip: only completion ends the loop; a failed job is polled again.
PollDecision_FailedSleeps(j) ==
    IF j.status = "completed" THEN "break" ELSE "sleep"

\* The loop body after the status query: break, raise or sleep.
PollDecision(j) ==
    IF j.status = "completed" THEN "break"
    ELSE IF j.status = "failed" THEN "raise"
    ELSE "sleep"

\* The call up to the loop: open the file, upload, check, parse, branch.
LoadFileIntoSource ==
    /\ pc = "idle"
    /\ \E blocking \in BOOLEAN, source_id \in SourceIds, exists \in BOOLEAN,
          r \in [code : StatusCodes, body : JobBodies \cup ErrorBodies], s \in Scripts :
          LET req == Request(client, "POST",
                             <<client.base_url, "/api/sources/", source_id, "/upload">>)
              res == UploadResult(r)
              loop == exists /\ res.kind = "return" /\ EntersLoop(blocking)
          IN  /\ op' = "load_file_into_source"
              /\ args' = [backend |-> "rest", blocking |-> blocking, source_id |-> source_id,
                          exists |-> exists]
              /\ queries' = 0
              /\ sleeps' = 0
              /\ sent' = IF exists THEN <<req>> ELSE <<>>
              /\ resp' = IF exists THEN r ELSE NoResponse
              /\ job' = IF exists /\ res.kind = "return" THEN res.value.from.job ELSE NoJob
              /\ script' = IF loop THEN s ELSE NoScript
              /\ pc' = IF loop THEN LoopEntry ELSE "done"
              /\ outcome' = IF ~exists THEN Raise("FileNotFoundError", Text("open"))
                            ELSE IF res.kind = "raise" THEN res
                            ELSE IF loop THEN NoOutcome
                            ELSE Return(res.value.from.job)
    /\ UNCHANGED <<client, pager, localVars>>

\* One turn of the loop: job = self.get_job_status(job.id), then the test.
PollStatus ==
    /\ pc = "polling"
    /\ \E code \in {HTTP_OK, 500}, b \in ScriptedBodies(script, job.id, queries + 1) :
          LET r == [code |-> code, body |-> b]
              res == get_job_status(r)
              j == res.value.from.job
              d == PollDecision(j)
          IN  /\ resp' = r
              /\ queries' = Inc(queries)
              /\ IF res.kind = "raise"
                 THEN /\ outcome' = res
                      /\ pc' = "done"
                      /\ job' = job
                 ELSE /\ job' = j
                      /\ pc' = IF d = "sleep" THEN "sleeping" ELSE "done"
                      /\ outcome' = CASE d = "break" -> Return(j)
                                      [] d = "raise" -> JobFailed(j)
                                      [] OTHER -> NoOutcome
    /\ UNCHANGED <<client, op, args, sent, script, sleeps, pager, localVars>>

\* time.sleep(1), then back to the top of the loop.
Sleep ==
    /\ pc = "sleeping"
    /\ sleeps' = Inc(sleeps)
    /\ pc' = "polling"
    /\ UNCHANGED <<client, op, args, sent, resp, outcome, job, script, queries, pager, localVars>>

\* ---------------------------------------------- the one-request operations

\* Operations that test the status with "if response.status_code != 200:
\* raise ValueError(...)" before they parse the body.
RaiseOps ==
    {"create_agent", "insert_archival_memory", "get_messages", "send_message",
     "add_human", "update_human", "delete_human",
     "add_persona", "update_persona", "delete_persona"}

\* Operations that test it with "assert response.status_code == 200, ...".
AssertOps ==
    {"rename_agent", "delete_agent", "get_agent_config", "update_agent", "save_agent",
     "get_user", "create_user", "add_default_presets", "get_preset",
     "get_preset_sources", "create_preset_from_file", "delete_preset", "list_presets",
     "get_agent_archival_memory", "delete_archival_memory",
     "attach_source_to_agent", "detach_source"}

\* Operations that parse the body without looking at the status code.
UncheckedOps ==
    {"list_agents", "get_agent_memory", "update_agent_core_memory", "run_command",
     "list_humans", "get_human", "list_personas", "get_persona", "list_sources",
     "get_job_status", "create_source", "list_models", "get_config"}

\* Operations that return None on success: nothing is built from the body.
ReturnsNone ==
    {"delete_agent", "update_agent", "save_agent", "create_user", "add_default_presets",
     "delete_preset", "delete_archival_memory", "attach_source_to_agent",
     "detach_source", "delete_human", "delete_persona"}

\* Operations that return None for a JSON null body instead of parsing it.
NullTolerant == {"get_human", "get_persona"}

SimpleOps == RaiseOps \cup AssertOps \cup UncheckedOps

\* The status codes that are a valid answer for each operation: 200, and for
\* the existence check 404 as well.
OkCodes(o) == IF o = "agent_exists" THEN {HTTP_OK, HTTP_NOT_FOUND} ELSE {HTTP_OK}

\* Operations that read a key of the JSON body before they build the model:
\* get_user turns formatted_response["id"] into a UUID first.
ReadsKeyFirst == {"get_user"}

\* body[key] on the decoded JSON: a key the wire model has is there; an object
\* of another shape lacks it (KeyError); null has no subscript (TypeError).
BodyKey(o, body, key) ==
    CASE body.shape = "model" -> Return([key |-> key, from |-> body])
      [] body.shape = "detail" -> Raise("KeyError", Text(key))
      [] OTHER -> Raise("TypeError", [model |-> o])

\* What the operation builds from an accepted response.
BuildResult(o, r) ==
    IF o \in ReturnsNone THEN Return(PyNone)
    ELSE IF o \in NullTolerant /\ r.body.shape = "null" THEN Return(PyNone)
    ELSE IF o \in ReadsKeyFirst /\ BodyKey(o, r.body, "id").kind = "raise"
    THEN BodyKey(o, r.body, "id")
    ELSE Parse(o, r.body)

\* The whole handling of a response by a one-request operation.
HandleResponse(o, r) ==
    IF o \in RaiseOps /\ r.code # HTTP_OK
    THEN Raise("ValueError", Message(o, r.body))
    ELSE IF o \in AssertOps /\ r.code # HTTP_OK
    THEN Raise("AssertionError", Message(o, r.body))
    ELSE BuildResult(o, r)

\* The operations whose handling of arguments and of the body is modelled in
\* an action of their own.
Detailed ==
    {"create_agent", "get_agent_config", "save_agent", "list_sources", "create_source",
     "get_agent_archival_memory"}

\* Operations that put their identifier arguments into the JSON payload as
\* they are: create_user (id) and attach_source_to_agent (agent_id, source_id).
\* Every other operation puts str(id) into the URL or the payload.
RawIdOps == {"create_user", "attach_source_to_agent"}

\* requests.post(..., json=data): the payload is encoded before anything is
\* sent; a uuid.UUID in it is not JSON serializable.
JsonEncode(o, ids) ==
    IF o \in RawIdOps /\ ids = "uuid"
    THEN Raise("TypeError", Text("Object of type UUID is not JSON serializable"))
    ELSE Return([type |-> "json"])

\* Any other one-request operation. delete_source (a listing, then the
\* delete) and the second create_preset (which first calls get_preset) are not
\* one-request operations and are not among them; user_message is send_message.
\* A payload that cannot be encoded ends the call before the request. The
\* caller hands over identifiers as the uuid.UUID of the signature ("uuid") or
\* as its string ("str").
RemoteCall ==
    /\ pc = "idle"
    /\ \E o \in SimpleOps \ Detailed, ids \in {"uuid", "str"},
          r \in [code : StatusCodes, body : GenericBodies] :
          LET encoded == JsonEncode(o, ids)
          IN  /\ op' = o
              /\ args' = [backend |-> "rest", ids |-> ids]
              /\ sent' = IF encoded.kind = "raise" THEN <<>>
                         ELSE <<Request(client, "HTTP", <<client.base_url, "/api/", o>>)>>
              /\ resp' = IF encoded.kind = "raise" THEN NoResponse ELSE r
              /\ outcome' = IF encoded.kind = "raise" THEN encoded
                            ELSE HandleResponse(o, r)
              /\ pc' = "done"
    /\ UNCHANGED <<client, job, script, queries, sleeps, pager, localVars>>

\* ------------------------------------------------- RESTClient.agent_exists

AgentIds == {None, "agent-1"}
AgentNames == {None, "name-1"}

\* Python truthiness of an Optional argument: None is false; a non-empty
\* string or an object without __bool__ and __len__ is true.
Truthy(x) == x \notin {None, ""}


\* A slip: every status other than 200 is read as "does not exist".
AgentExistsResult_ElseFalse(r) ==
    IF r.code = HTTP_OK THEN Return(PyBool(TRUE)) ELSE Return(PyBool(FALSE))

\* The answer of the existence check for a status code.
AgentExistsResult(r) ==
    IF r.code = HTTP_NOT_FOUND THEN Return(PyBool(FALSE))
    ELSE IF r.code = HTTP_OK THEN Return(PyBool(TRUE))
    ELSE Raise("ValueError", Message("Failed to check if agent exists: ", r.body))

\* RESTClient.agent_exists: the request is built from str(agent_id) and
\* issued without a look at the arguments; agent_name is never read.
RestAgentExists ==
    /\ pc = "idle"
    /\ \E agent_id \in AgentIds, agent_name \in AgentNames,
          r \in [code : StatusCodes, body : GenericBodies] :
          /\ op' = "agent_exists"
          /\ args' = [backend |-> "rest", agent_id |-> agent_id, agent_name |-> agent_name]
          /\ sent' = <<Request(client, "GET",
                               <<client.base_url, "/api/agents/", agent_id, "/config">>)>>
          /\ resp' = r
          /\ outcome' = AgentExistsResult(r)
          /\ pc' = "done"
    /\ UNCHANGED <<client, job, script, queries, sleeps, pager, localVars>>

\* ------------------------------------------------ LocalClient.agent_exists

\* What self.server.list_agents(user_id=...) may hold for the user.
AgentLists ==
    {<<>>,
     <<[id |-> "agent-1", name |-> "name-1"]>>,
     <<[id |-> "agent-2", name |-> "name-2"], [id |-> "agent-1", name |-> "name-3"]>>}

\* The two argument checks, in the order of the code.
AgentExistsArgError(agent_id, agent_name) ==
    IF ~(Truthy(agent_id) \/ Truthy(agent_name))
    THEN "Either agent_id or agent_name must be provided"
    ELSE IF Truthy(agent_id) /\ Truthy(agent_name)
    THEN "Only one of agent_id or agent_name can be provided"
    ELSE None

\* ListAgentsResponse(**agents_data): the response model of the agents
\* endpoint (imported from the REST API package), holding the listing in its
\* field agents.
ListAgentsResponse(agents_data) == [type |-> "ListAgentsResponse", agents |-> agents_data]

\* obj[key]: a mapping gives the value under the key; a response model has
\* its fields as attributes and no subscript.
Subscript(obj, key) ==
    IF obj.type = "dict" THEN Return(obj[key])
    ELSE Raise("TypeError", Text("object is not subscriptable"))

\* The membership test of agent_exists: it subscripts what list_agents
\* returned, existing["agents"], and looks for the id, else for the name.
AgentListed(existing, agent_id, agent_name) ==
    LET agents == Subscript(existing, "agents")
    IN  IF agents.kind = "raise" THEN agents
        ELSE IF Truthy(agent_id)
        THEN Return(PyBool(\E i \in DOMAIN agents.value : agents.value[i].id = agent_id))
        ELSE Return(PyBool(\E i \in DOMAIN agents.value : agents.value[i].name = agent_name))

\* The whole call on an object i: the argument checks; then self.list_agents(),
\* which clears the buffer of the object and lists the agents; then the
\* membership test.
LocalAgentExists ==
    /\ pc = "idle"
    /\ \E agent_id \in AgentIds, agent_name \in AgentNames, existing \in AgentLists,
          i \in DOMAIN interface :
          LET err == AgentExistsArgError(agent_id, agent_name)
          IN  /\ op' = "agent_exists"
              /\ args' = [backend |-> "local", agent_id |-> agent_id, agent_name |-> agent_name]
              /\ sent' = IF err # None THEN <<>>
                         ELSE <<[call |-> "server.list_agents", result |-> existing]>>
              /\ resp' = NoResponse
              /\ outcome' = IF err # None THEN Raise("ValueError", Text(err))
                            ELSE AgentListed(ListAgentsResponse(existing), agent_id, agent_name)
              /\ interface' = IF err # None THEN interface
                              ELSE [interface EXCEPT ![i] = <<>>]
              /\ pc' = "done"
    /\ UNCHANGED <<client, job, script, queries, sleeps, pager, ms, local, call, serial>>

\* ------------------------------------------------- RESTClient.create_agent

Configs == {None, "config"}


\* A slip: only embedding_config is tested.
OverridesConfig_EmbeddingOnly(embedding_config, llm_config) ==
    Truthy(embedding_config)

\* if embedding_config or llm_config: raise ValueError(...)
OverridesConfig(embedding_config, llm_config) ==
    Truthy(embedding_config) \/ Truthy(llm_config)

\* get_agent_response_to_state applied to the parsed CreateAgentResponse.
CreateAgentResult(r) ==
    IF r.code # HTTP_OK
    THEN Raise("ValueError", [prefix |-> "Failed to create agent: ", code |-> r.code,
                              text |-> r.body])
    ELSE LET parsed == Parse("CreateAgentResponse", r.body)
         IN  IF parsed.kind = "raise" THEN parsed
             ELSE Return([type |-> "AgentState", from |-> parsed.value.from])

RestCreateAgent ==
    /\ pc = "idle"
    /\ \E name \in AgentNames, preset \in {None, "preset-1"},
          embedding_config \in Configs, llm_config \in Configs,
          r \in [code : StatusCodes, body : GenericBodies] :
          LET rejected == OverridesConfig(embedding_config, llm_config)
              payload == [name |-> name, preset |-> preset, persona |-> None, human |-> None]
              req == [method |-> "POST", url |-> <<client.base_url, "/api/agents/create">>,
                      headers |-> client.headers, json |-> payload]
          IN  /\ op' = "create_agent"
              /\ args' = [backend |-> "rest", name |-> name, preset |-> preset,
                          embedding_config |-> embedding_config, llm_config |-> llm_config]
              /\ sent' = IF rejected THEN <<>> ELSE <<req>>
              /\ resp' = IF rejected THEN NoResponse ELSE r
              /\ outcome' =
                    IF rejected
                    THEN Raise("ValueError",
                               Text("Cannot override embedding_config or llm_config when creating agent via REST API"))
                    ELSE CreateAgentResult(r)
              /\ pc' = "done"
    /\ UNCHANGED <<client, job, script, queries, sleeps, pager, localVars>>

\* The elements of a sequence.
Range(s) == {s[k] : k \in DOMAIN s}

\* ------------------------------------------------------ RESTClient: sources

\* A timestamp as it travels: the text cut at the places where the format
\* "%Y-%m-%dT%H:%M:%S.%f" has its separators. One well-formed value, one
\* with a blank for the T and no fraction, one that is no timestamp.
WireTimestamps ==
    {<<"2024", "-", "01", "-", "02", "T", "03", ":", "04", ":", "05", ".", "000006">>,
     <<"2024", "-", "01", "-", "02", " ", "03", ":", "04", ":", "05">>,
     <<"yesterday">>}

\* The separators of the format, by position.
DateFormat == <<"%Y", "-", "%m", "-", "%d", "T", "%H", ":", "%M", ":", "%S", ".", "%f">>

\* The text matches the format: as many pieces, and the format's separators.
MatchesFormat(text, format) ==
    /\ Len(text) = Len(format)
    /\ \A k \in DOMAIN format : format[k] \in {"-", "T", ":", "."} => text[k] = format[k]

\* datetime.datetime.strptime(text, format): the datetime of the fields, or
\* ValueError when the text does not match.
strptime(text, format) ==
    IF MatchesFormat(text, format)
    THEN Return([type |-> "datetime",
                 fields |-> [k \in {k \in DOMAIN format : format[k] \notin {"-", "T", ":", "."}}
                                |-> text[k]]])
    ELSE Raise("ValueError", [data |-> text, format |-> format])

\* A str object: a wire value handed on as it came.
Str(text) == [type |-> "str", text |-> text]

\* A SourceModel as the backend sends it: every field a string.
SourceNames == {"docs", "notes"}
WireSources == [id : {"src-1", "src-2"}, name : SourceNames, created_at : WireTimestamps]

\* What GET /api/sources may list: nothing, one source, or a first and a
\* second source (which may carry one name).
SourceListings ==
    {<<>>} \cup {<<s>> : s \in WireSources}
           \cup {<<s, t>> : s \in {w \in WireSources : w.id = "src-1"},
                            t \in {w \in WireSources : w.id = "src-2"}}

ListingBodies == [shape : {"model"}, sources : SourceListings]
SourceBodies == [shape : {"model"}, source : WireSources]

\* list_sources, the loop over the listed sources: each created_at is parsed
\* by strptime; the first that does not parse ends the call.
RECURSIVE ConvertSources(_)
ConvertSources(sources) ==
    IF sources = <<>> THEN Return([type |-> "list", items |-> <<>>])
    ELSE LET parsed == strptime(Head(sources).created_at, DateFormat)
             rest == ConvertSources(Tail(sources))
         IN  IF parsed.kind = "raise" THEN parsed
             ELSE IF rest.kind = "raise" THEN rest
             ELSE Return([type |-> "list",
                          items |-> <<[id |-> Head(sources).id, name |-> Head(sources).name,
                                       created_at |-> parsed.value]>> \o rest.value.items])

\* list_sources: the body is parsed whatever the status code.
ListSourcesResult(r) ==
    LET parsed == Parse("ListSourcesResponse", r.body)
    IN  IF parsed.kind = "raise" THEN parsed ELSE ConvertSources(r.body.sources)

RestListSources ==
    /\ pc = "idle"
    /\ \E r \in [code : StatusCodes, body : ListingBodies \cup ErrorBodies] :
          /\ op' = "list_sources"
          /\ args' = [backend |-> "rest"]
          /\ sent' = <<Request(client, "GET", <<client.base_url, "/api/sources">>)>>
          /\ resp' = r
          /\ outcome' = ListSourcesResult(r)
          /\ pc' = "done"
    /\ UNCHANGED <<client, job, script, queries, sleeps, pager, localVars>>


\* create_source: created_at=response_obj.created_at, the wire value as it is.
CreatedAt(text) == Return(Str(text))

\* create_source: the body is parsed whatever the status code, and the Source
\* is built from its fields.
CreateSourceResult(r) ==
    LET parsed == Parse("SourceModel", r.body)
        created == CreatedAt(r.body.source.created_at)
    IN  IF parsed.kind = "raise" THEN parsed
        ELSE IF created.kind = "raise" THEN created
        ELSE Return([type |-> "Source", id |-> r.body.source.id, name |-> r.body.source.name,
                     created_at |-> created.value])

RestCreateSource ==
    /\ pc = "idle"
    /\ \E name \in SourceNames, r \in [code : StatusCodes, body : SourceBodies \cup ErrorBodies] :
          /\ op' = "create_source"
          /\ args' = [backend |-> "rest", name |-> name]
          /\ sent' = <<[method |-> "POST", url |-> <<client.base_url, "/api/sources">>,
                        headers |-> client.headers, json |-> [name |-> name]]>>
          /\ resp' = r
          /\ outcome' = CreateSourceResult(r)
          /\ pc' = "done"
    /\ UNCHANGED <<client, job, script, queries, sleeps, pager, localVars>>

\* str(uuid.UUID(int=0))
ZeroUUID == "00000000-0000-0000-0000-000000000000"

\* A slip: the id of the first listed source, whatever its name.
FindSourceId_FirstListed(sources, source_name) ==
    IF sources = <<>> THEN ZeroUUID ELSE Head(sources).id

\* delete_source, the loop: the id of the first listed source that carries the
\* name, the all-zero id when none does.
RECURSIVE FindSourceId(_, _)
FindSourceId(sources, source_name) ==
    IF sources = <<>> THEN ZeroUUID
    ELSE IF Head(sources).name = source_name THEN Head(sources).id
    ELSE FindSourceId(Tail(sources), source_name)

\* delete_source: the listing is requested and parsed whatever its status
\* code, the id is looked up, the delete is requested and its status asserted.
\* The response kept is that of the delete request, together with the sources
\* the listing request had answered with.
RestDeleteSource ==
    /\ pc = "idle"
    /\ \E source_name \in SourceNames,
          listing \in [code : {HTTP_OK, 500}, body : ListingBodies \cup ErrorBodies],
          r \in [code : StatusCodes, body : ErrorBodies] :
          LET get == Request(client, "GET", <<client.base_url, "/api/sources">>)
              parsed == Parse("ListSourcesResponse", listing.body)
              source_id == FindSourceId(listing.body.sources, source_name)
              delete == Request(client, "DELETE", <<client.base_url, "/api/sources/", source_id>>)
          IN  /\ op' = "delete_source"
              /\ args' = [backend |-> "rest", source_name |-> source_name]
              /\ sent' = IF parsed.kind = "raise" THEN <<get>> ELSE <<get, delete>>
              /\ resp' = IF parsed.kind = "raise" THEN listing
                         ELSE [code |-> r.code, body |-> r.body,
                               listed |-> listing.body.sources]
              /\ outcome' = IF parsed.kind = "raise" THEN parsed
                            ELSE IF r.code # HTTP_OK
                            THEN Raise("AssertionError", Message("Failed to delete source: ", r.body))
                            ELSE Return(PyNone)
              /\ pc' = "done"
    /\ UNCHANGED <<client, job, script, queries, sleeps, pager, localVars>>

\* ------------------------------------------------ RESTClient.create_preset

\* The parameters of get_preset, and the keywords the second create_preset
\* (the one the class ends up with) passes to it.
GetPresetParams == {"preset_name", "user_id"}
GetPresetKeywords == {"name"}


\* Python binds a call only if every keyword is a parameter and every
\* parameter without a default gets a value.
BindsCall(keywords, params) == keywords = params

\* create_preset: the tool schemas are collected, then self.get_preset(name=
\* DEFAULT_PRESET) is called; only if that call binds are the two requests
\* (the default preset, then the creation) issued.
RestCreatePreset ==
    /\ pc = "idle"
    /\ \E name \in {"preset-1"}, default_tools \in BOOLEAN,
          r \in [code : StatusCodes, body : GenericBodies] :
          LET binds == BindsCall(GetPresetKeywords, GetPresetParams)
              get == Request(client, "GET", <<client.base_url, "/api/presets/", "DEFAULT_PRESET">>)
              post == [method |-> "POST", url |-> <<client.base_url, "/api/presets">>,
                       headers |-> client.headers, json |-> [name |-> name]]
          IN  /\ op' = "create_preset"
              /\ args' = [backend |-> "rest", name |-> name, default_tools |-> default_tools]
              /\ sent' = IF binds THEN <<get, post>> ELSE <<>>
              /\ resp' = IF binds THEN r ELSE NoResponse
              /\ outcome' =
                    IF ~binds
                    THEN Raise("TypeError",
                               Text("get_preset() got an unexpected keyword argument 'name'"))
                    ELSE IF r.code # HTTP_OK
                    THEN Raise("AssertionError", Message("Failed to create preset: ", r.body))
                    ELSE Parse("CreatePresetModelResponse", r.body)
              /\ pc' = "done"
    /\ UNCHANGED <<client, job, script, queries, sleeps, pager, localVars>>

\* ------------------------------------------ RESTClient: the AgentState adapter

\* An identifier as text on the wire, in any spelling uuid.UUID accepts, and
\* the canonical spelling str() gives: lower case.
WireUUIDs == {"a1", "A1", "b2"}
Canonical(text) == IF text = "A1" THEN "a1" ELSE text

\* uuid.UUID(text), and str(uuid).
UUID(text) == [hex |-> Canonical(text)]
UUIDStr(id) == id.hex

\* Creation times on the wire: whole seconds since the epoch.
EpochSeconds == {-1, 0, 1, 2000}

\* A datetime counts microseconds.
MicrosPerSecond == 1000000

\* An AgentStateModel as the backend sends it (the fields the adapter may
\* not lose; persona, human, preset and the configurations are copied
\* likewise).
WireAgentStates ==
    [id : WireUUIDs, name : {"name-1", "name-2"}, user_id : {"b2"},
     created_at : EpochSeconds, state : {[functions |-> <<"send_message">>]}]

AgentBodies == [shape : {"model"}, agent_state : WireAgentStates]


\* A slip: the wire value read as milliseconds.
fromtimestamp_Millis(seconds) == [type |-> "datetime", tz |-> "utc", us |-> seconds * 1000]

\* datetime.datetime.fromtimestamp(seconds, tz=datetime.timezone.utc)
fromtimestamp(seconds) == [type |-> "datetime", tz |-> "utc", us |-> seconds * MicrosPerSecond]

\* int(dt.timestamp()): the seconds as a float, truncated towards zero.
IntTimestamp(dt) ==
    IF dt.us >= 0 THEN dt.us \div MicrosPerSecond ELSE -((-dt.us) \div MicrosPerSecond)

\* get_agent_response_to_state: the AgentState built from the response; the
\* model has parsed the identifiers, the creation time becomes a datetime.
get_agent_response_to_state(w) ==
    [type |-> "AgentState", id |-> UUID(w.id), name |-> w.name, user_id |-> UUID(w.user_id),
     state |-> w.state, created_at |-> fromtimestamp(w.created_at)]

\* get_agent_config: status asserted, body parsed, state adapted.
GetAgentConfigResult(r) ==
    IF r.code # HTTP_OK
    THEN Raise("AssertionError", Message("Failed to get agent: ", r.body))
    ELSE LET parsed == Parse("GetAgentResponse", r.body)
         IN  IF parsed.kind = "raise" THEN parsed
             ELSE Return(get_agent_response_to_state(r.body.agent_state))

RestGetAgentConfig ==
    /\ pc = "idle"
    /\ \E agent_id \in AgentIds, r \in [code : StatusCodes, body : AgentBodies \cup ErrorBodies] :
          /\ op' = "get_agent_config"
          /\ args' = [backend |-> "rest", agent_id |-> agent_id]
          /\ sent' = <<[method |-> "GET", url |-> <<client.base_url, "/api/agents/config">>,
                        headers |-> client.headers, params |-> [agent_id |-> agent_id]]>>
          /\ resp' = r
          /\ outcome' = GetAgentConfigResult(r)
          /\ pc' = "done"
    /\ UNCHANGED <<client, job, script, queries, sleeps, pager, localVars>>

\* save_agent, the wire model built from agent.agent_state.
AgentStateData(agent_state) ==
    [id |-> UUIDStr(agent_state.id), name |-> agent_state.name,
     user_id |-> UUIDStr(agent_state.user_id), state |-> agent_state.state,
     created_at |-> IntTimestamp(agent_state.created_at),
     functions_schema |-> agent_state.state.functions]

\* save_agent, called with the agent the caller has just fetched; origin is
\* the wire form that agent came from (kept for the properties only).
RestSaveAgent ==
    /\ pc = "done"
    /\ op = "get_agent_config"
    /\ outcome.kind = "return"
    /\ \E r \in [code : StatusCodes, body : ErrorBodies] :
          /\ op' = "save_agent"
          /\ args' = [backend |-> "rest", agent_state |-> outcome.value,
                      origin |-> resp.body.agent_state]
          /\ sent' = <<[method |-> "POST", url |-> <<client.base_url, "/api/agents/save">>,
                        headers |-> client.headers, json |-> AgentStateData(outcome.value)]>>
          /\ resp' = r
          /\ outcome' = IF r.code # HTTP_OK
                        THEN Raise("AssertionError", Message("Failed to save agent: ", r.body))
                        ELSE Return(PyNone)
          /\ pc' = "done"
    /\ UNCHANGED <<client, job, script, queries, sleeps, pager, localVars>>

\* ------------------------------------------ get_agent_archival_memory, paged

\* Largest page size a caller asks for.
MaxLimit == 3

\* An Optional[uuid.UUID] argument: the identifier, or None.
NoId == [hex |-> None]
Id(text) == [hex |-> text]

\* The archival records of an agent, in the backend's order.
RecordLists ==
    {<<>>, <<"r1">>, <<"r1", "r2">>, <<"r1", "r2", "r3">>, <<"r3", "r1", "r2", "r4">>}

\* The place of an identifier in the records, 0 when it is not among them.
IndexOf(records, id) ==
    IF \E k \in DOMAIN records : records[k] = id
    THEN CHOOSE k \in DOMAIN records : records[k] = id
    ELSE 0

\* The backend's cursor query: of the records after the one named by after
\* (all, when there is none) and before the one named by before, the first
\* limit.
CursorQuery(records, before, after, limit) ==
    LET from == IF after = None THEN 1 ELSE IndexOf(records, after) + 1
        to == IF before = None THEN Len(records) ELSE IndexOf(records, before) - 1
        last == IF to < from + limit - 1 THEN to ELSE from + limit - 1
    IN  SubSeq(records, from, last)


\* A slip: the after cursor is left out of the query.
ArchivalParams_DropsAfter(before, after, limit) ==
    [limit |-> limit,
     before |-> IF Truthy(before.hex) THEN before.hex ELSE None,
     after |-> None]

\* RESTClient: params = {"limit": limit}, with str(before) and str(after)
\* added when they are set (None stands for a key that is absent).
ArchivalParams(before, after, limit) ==
    [limit |-> limit,
     before |-> IF Truthy(before.hex) THEN before.hex ELSE None,
     after |-> IF Truthy(after.hex) THEN after.hex ELSE None]

\* LocalClient: the keyword arguments of server.get_agent_archival_cursor.
CursorArgs(before, after, limit) == [after |-> after, before |-> before, limit |-> limit]

\* The page the backend gives for what the strategy sent it.
PageFor(backend, records, before, after, limit) ==
    IF backend = "rest"
    THEN LET params == ArchivalParams(before, after, limit)
         IN  CursorQuery(records, params.before, params.after, params.limit)
    ELSE LET kwargs == CursorArgs(before, after, limit)
         IN  CursorQuery(records, kwargs.before.hex, kwargs.after.hex, kwargs.limit)

\* What the strategy sent for the call.
ArchivalRequest(backend, agent_id, before, after, limit) ==
    IF backend = "rest"
    THEN [method |-> "GET", url |-> <<client.base_url, "/api/agents/", agent_id, "/archival">>,
          headers |-> client.headers, params |-> ArchivalParams(before, after, limit)]
    ELSE [call |-> "server.get_agent_archival_cursor", kwargs |-> CursorArgs(before, after, limit)]

\* A caller sets out to page through an agent's archival memory: from the
\* cursor first, limit records at a time; asked is the cursor of its last call.
StartPaging ==
    /\ pc = "idle"
    /\ \E backend \in {"rest", "local"}, records \in RecordLists, limit \in 1..MaxLimit :
          \E first \in {None} \cup Range(records), before \in {None} \cup Range(records) :
             /\ pager' = [active |-> TRUE, records |-> records, first |-> Id(first),
                          before |-> Id(before), limit |-> limit, after |-> Id(first),
                          asked |-> Id(first), seen |-> <<>>]
             /\ op' = "get_agent_archival_memory"
             /\ args' = [backend |-> backend]
             /\ pc' = "paging"
    /\ UNCHANGED <<client, sent, resp, outcome, job, script, queries, sleeps, localVars>>

\* One call of get_agent_archival_memory with the caller's cursor; the caller
\* stops at an empty page or a failure, else moves the cursor to the last id
\* of the page. A remote backend may answer with a server error instead.
FetchPage ==
    /\ pc = "paging"
    /\ \E code \in IF args.backend = "rest" THEN {HTTP_OK, 500} ELSE {HTTP_OK} :
          LET page == PageFor(args.backend, pager.records, pager.before, pager.after,
                              pager.limit)
              body == [shape |-> "model", archival_memory |-> page]
              failed == code # HTTP_OK
          IN  /\ sent' = <<ArchivalRequest(args.backend, "agent-1", pager.before, pager.after,
                                           pager.limit)>>
              /\ resp' = IF args.backend = "rest" THEN [code |-> code, body |-> body]
                         ELSE NoResponse
              /\ pager' = IF failed \/ page = <<>> THEN [pager EXCEPT !.asked = pager.after]
                          ELSE [pager EXCEPT !.asked = pager.after,
                                             !.seen = @ \o page,
                                             !.after = Id(page[Len(page)])]
              /\ outcome' = IF failed
                            THEN Raise("AssertionError",
                                       Message("Failed to get archival memory: ", body))
                            ELSE IF page = <<>> THEN Return([pages |-> pager.seen])
                            ELSE NoOutcome
              /\ pc' = IF failed \/ page = <<>> THEN "done" ELSE "paging"
    /\ UNCHANGED <<client, op, args, job, script, queries, sleeps, localVars>>

\* No paging in progress.
NoPager == [active |-> FALSE]

\* ============================================================ LocalClient

\* The LocalClient objects a program holds, and its calling threads.
Instances == {1, 2}
Threads == {1, 2}

\* config.anon_clientid, and the user ids a caller may pass instead.
AnonClientId == "anon"
UserIds == {"user-1"}

\* ------------------------------------------------------ the metadata store

\* User(id=self.user_id): a record with the defaults of every other field.
User(id) == [id |-> id, default_agent |-> None, policies_accepted |-> FALSE]

\* A user record as an earlier session may have left it.
StoredUsers ==
    {[id |-> id, default_agent |-> "agent-1", policies_accepted |-> TRUE] :
        id \in UserIds \cup {AnonClientId}}

\* The store: the users table (a sequence, so that a duplicate row would
\* show), the users whose default presets exist, and the agents table.
EmptyStore == [users |-> <<>>, presets |-> {}, agents |-> <<>>]

\* ms.get_user(user_id): the record with that id, or None.
HasUser(users, id) == \E k \in DOMAIN users : users[k].id = id

\* ms.update_user(user): the record with the user's id is overwritten.
update_user(users, user) ==
    [k \in DOMAIN users |-> IF users[k].id = user.id THEN user ELSE users[k]]

\* ms.create_user(user): a new row; a second row with the same id is refused.
create_user(users, user) ==
    IF HasUser(users, user.id)
    THEN Raise("ValueError", Text("User with id already exists"))
    ELSE Return([users |-> Append(users, user)])

\* add_default_presets(user_id, ms): creates the default presets the user
\* lacks.
add_default_presets(presets, user_id) == presets \cup {user_id}

\* ------------------------------------------------- LocalClient.__init__

\* An object not yet constructed.
NoClient == [constructed |-> FALSE, user_id |-> None, auto_save |-> FALSE,
             init |-> NoOutcome]


\* A slip: construction always inserts the user.
UpsertBranch_AlwaysCreate(found) == "create"

\* if ms.get_user(self.user_id): update, else: create.
UpsertBranch(found) == IF found THEN "update" ELSE "create"


\* A slip: one queuing interface shared by every object of the class.
InterfaceOf_Shared(i) == 1

\* self.interface = QueuingInterface(...): each object holds its own, and the
\* server it constructs is bound to that one.
InterfaceOf(i) == i

\* self.user_id: the argument when given, the configuration's anonymous id
\* otherwise.
ResolveUserId(user_id) == IF Truthy(user_id) THEN user_id ELSE AnonClientId

\* No call is in progress, and no caller is still looking at an outcome.
Quiet == pc = "idle" /\ \A t \in Threads : call[t].pc = "idle"

\* No call is in progress on object i.
Unused(i) ==
    /\ \A t \in Threads : call[t].pc # "idle" => call[t].inst # i
    /\ serial => Quiet

\* The constructor: resolve the user id, upsert the user record, add the
\* default presets, create the queuing interface and the server.
LocalClientInit(i) ==
    /\ Unused(i)
    /\ \E auto_save \in BOOLEAN, user_id \in UserIds \cup {None} :
          LET uid == ResolveUserId(user_id)
              user == User(uid)
              branch == UpsertBranch(HasUser(ms.users, uid))
              created == create_user(ms.users, user)
          IN  IF branch = "create" /\ created.kind = "raise"
              THEN /\ local' = [local EXCEPT ![i] =
                                   [constructed |-> FALSE, user_id |-> uid,
                                    auto_save |-> auto_save, init |-> created]]
                   /\ UNCHANGED <<ms, interface>>
              ELSE /\ ms' = [ms EXCEPT
                               !.users = IF branch = "update"
                                         THEN update_user(ms.users, user)
                                         ELSE created.value.users,
                               !.presets = add_default_presets(ms.presets, uid)]
                   /\ local' = [local EXCEPT ![i] =
                                   [constructed |-> TRUE, user_id |-> uid,
                                    auto_save |-> auto_save, init |-> Return(PyNone)]]
                   /\ interface' = [interface EXCEPT ![InterfaceOf(i)] = <<>>]
    /\ UNCHANGED <<call, serial>>
    /\ UNCHANGED <<client, pc, op, args, sent, resp, outcome, job, script, queries,
                   sleeps, pager>>

\* ------------------------------------------- the calls of a LocalClient

\* Most messages the embedded server emits while it serves one call.
MaxEmit == 2

\* The buffer never holds more than the emissions of the calls in progress
\* when it was last cleared; emission is cut off there.
MaxQueue == Cardinality(Threads) * MaxEmit

\* A message the server emits: the n-th message of the call that thread t
\* made in its epoch e (epochs alternate from one call of a thread to the next).
Msg(t, e, n) == [thread |-> t, epoch |-> e, n |-> n]

\* A thread between two calls; epoch is that of its last call.
IdleCall == [pc |-> "idle", inst |-> 0, op |-> None, arg |-> None, epoch |-> 0,
             emitted |-> <<>>, server |-> <<>>, overlapped |-> FALSE,
             outcome |-> NoOutcome]

\* Thread u is inside a call: the call has started and has not returned.
InProgress(u) == call[u].pc = "invoke"

\* The other threads inside a call on object i.
Others(t, i) == {u \in Threads \ {t} : InProgress(u) /\ call[u].inst = i}

\* Thread t may start a call: it is between calls and, when the callers take
\* turns, no other call is in progress.
MayStart(t) ==
    /\ call[t].pc = "idle"
    /\ serial => Quiet


\* A slip: the call does not clear the buffer first.
ClearOnEntry_Keeps(q) == q

\* self.interface.clear(), the first statement of the call.
ClearOnEntry(q) == <<>>

\* self.interface.to_list(): the buffered messages in order; the buffer is
\* drained by it.
to_list(q) == [messages |-> q, rest |-> <<>>]

\* The objects a thread holds a reference to: thread 1 calls the first
\* object, any other thread calls any object (which thread is which does not
\* matter).
ClientsOf(t) == IF t = 1 THEN {1} ELSE Instances

\* The call record of thread t after the step that starts call o on object i
\* in epoch e, and the records of the threads it overlaps.
Started(t, i, o, e) ==
    [u \in Threads |->
        IF u = t
        THEN [pc |-> "invoke", inst |-> i, op |-> o, arg |-> None,
              epoch |-> e, emitted |-> <<>>,
              server |-> <<o>>, overlapped |-> Others(t, i) # {},
              outcome |-> NoOutcome]
        ELSE IF u \in Others(t, i) THEN [call[u] EXCEPT !.overlapped = TRUE]
        ELSE call[u]]

\* user_message up to the server call: clear the buffer, hand the message to
\* the server.
UserMessage(t) ==
    /\ MayStart(t)
    /\ \E i \in ClientsOf(t) :
          /\ local[i].constructed
          /\ call' = Started(t, i, "user_message", 1 - call[t].epoch)
          /\ interface' = [interface EXCEPT ![InterfaceOf(i)] = ClearOnEntry(@)]
    /\ UNCHANGED <<ms, local, serial>>
    /\ UNCHANGED <<client, pc, op, args, sent, resp, outcome, job, script, queries,
                   sleeps, pager>>

\* run_command up to the server call: clear the buffer, run the command.
RunCommand(t) ==
    /\ MayStart(t)
    /\ \E i \in ClientsOf(t) :
          /\ local[i].constructed
          /\ call' = Started(t, i, "run_command", 1 - call[t].epoch)
          /\ interface' = [interface EXCEPT ![InterfaceOf(i)] = ClearOnEntry(@)]
    /\ UNCHANGED <<ms, local, serial>>
    /\ UNCHANGED <<client, pc, op, args, sent, resp, outcome, job, script, queries,
                   sleeps, pager>>

\* The calls in which the server steps an agent, which is what emits.
MessageOps == {"user_message", "run_command"}

\* The server, serving the call of thread t, emits its next message into the
\* interface it was constructed with.
ServerEmit(t) ==
    /\ call[t].pc = "invoke"
    /\ call[t].op \in MessageOps
    /\ Len(call[t].emitted) < MaxEmit
    /\ Len(interface[InterfaceOf(call[t].inst)]) < MaxQueue
    /\ LET m == Msg(t, call[t].epoch, Len(call[t].emitted) + 1)
       IN  /\ interface' = [interface EXCEPT ![InterfaceOf(call[t].inst)] = Append(@, m)]
           /\ call' = [call EXCEPT ![t].emitted = Append(@, m)]
    /\ UNCHANGED <<ms, local, serial>>
    /\ UNCHANGED <<client, pc, op, args, sent, resp, outcome, job, script, queries,
                   sleeps, pager>>

\* A slip: the call drains the buffer whether or not auto_save is set.
ReturnBranch_AlwaysDrain(auto_save) == "drain"

\* if self.auto_save: self.save(), else: return the drained messages.
ReturnBranch(auto_save) == IF auto_save THEN "save" ELSE "drain"

\* user_message after the server call, which may return after any number of
\* emissions: with auto_save the agents are saved
\* and the call falls off its end (None); without it the buffer is drained
\* into the UserMessageResponse.
UserMessageReturn(t) ==
    /\ call[t].pc = "invoke"
    /\ call[t].op = "user_message"
    /\ LET i == call[t].inst
           drained == to_list(interface[InterfaceOf(i)])
       IN  IF ReturnBranch(local[i].auto_save) = "save"
           THEN /\ call' = [call EXCEPT ![t].pc = "done",
                                        ![t].server = Append(@, "save_agents"),
                                        ![t].outcome = Return(PyNone)]
                /\ UNCHANGED interface
           ELSE /\ call' = [call EXCEPT ![t].pc = "done",
                                        ![t].outcome =
                                            Return([type |-> "UserMessageResponse",
                                                    messages |-> drained.messages])]
                /\ interface' = [interface EXCEPT ![InterfaceOf(i)] = drained.rest]
    /\ UNCHANGED <<ms, local, serial>>
    /\ UNCHANGED <<client, pc, op, args, sent, resp, outcome, job, script, queries,
                   sleeps, pager>>

\* run_command after the server call: the server's answer is returned; the
\* buffer is left as it is.
RunCommandReturn(t) ==
    /\ call[t].pc = "invoke"
    /\ call[t].op = "run_command"
    /\ call' = [call EXCEPT ![t].pc = "done",
                            ![t].outcome = Return([type |-> "str"])]
    /\ UNCHANGED <<ms, local, interface, serial>>
    /\ UNCHANGED <<client, pc, op, args, sent, resp, outcome, job, script, queries,
                   sleeps, pager>>

\* self.server.list_agents(user_id=self.user_id): the user's agents.
list_agents(agents, user_id) == SelectSeq(agents, LAMBDA a : a.user_id = user_id)

\* The other operations that clear the buffer and then forward to the server:
\* list_agents, get_agent_config, get_agent_memory, update_agent_core_memory.
ClearingOps ==
    {"list_agents", "get_agent_config", "get_agent_memory", "update_agent_core_memory"}

\* One of them up to the server call: clear the buffer, ask the server.
ClearAndForward(t) ==
    /\ MayStart(t)
    /\ \E i \in ClientsOf(t), o \in ClearingOps :
          /\ local[i].constructed
          /\ call' = Started(t, i, o, call[t].epoch)
          /\ interface' = [interface EXCEPT ![InterfaceOf(i)] = ClearOnEntry(@)]
    /\ UNCHANGED <<ms, local, serial>>
    /\ UNCHANGED <<client, pc, op, args, sent, resp, outcome, job, script, queries,
                   sleeps, pager>>

\* One of them after the server call: the server's answer is returned,
\* wrapped in a ListAgentsResponse by list_agents; the buffer is left as it is.
ClearAndForwardReturn(t) ==
    /\ call[t].pc = "invoke"
    /\ call[t].op \in ClearingOps
    /\ call' = [call EXCEPT
                  ![t].pc = "done",
                  ![t].outcome =
                      IF call[t].op = "list_agents"
                      THEN Return(ListAgentsResponse(
                               list_agents(ms.agents, local[call[t].inst].user_id)))
                      ELSE Return([type |-> "answer", of |-> call[t].op])]
    /\ UNCHANGED <<ms, local, interface, serial>>
    /\ UNCHANGED <<client, pc, op, args, sent, resp, outcome, job, script, queries,
                   sleeps, pager>>

\* The calling thread, having received the outcome, is ready for its next call.
Forget(t) ==
    /\ call[t].pc = "done"
    /\ call' = [call EXCEPT ![t] = [IdleCall EXCEPT !.epoch = call[t].epoch]]
    /\ UNCHANGED <<ms, local, interface, serial>>
    /\ UNCHANGED <<client, pc, op, args, sent, resp, outcome, job, script, queries,
                   sleeps, pager>>

\* ------------------------------------------------ LocalClient.create_agent

\* The agents table never grows beyond this many rows.
MaxAgents == 2

\* Names a caller may give.
CreateNames == {None, "name-1", "name-2"}

\* The server makes up the name of an unnamed agent; this many different
\* names are considered.
MaxGenerated == 2

\* Names the server may make up for an unnamed agent. Whether it avoids the
\* names in use is not the client's to know: any of them may be given again.
GeneratedNamePool == <<"gen-1", "gen-2", "gen-3">>
GeneratedNames == {GeneratedNamePool[n] : n \in 1..MaxGenerated}

\* Identifiers the server gives to agents.
AgentIdPool == <<"agent-1", "agent-2", "agent-3", "agent-4">>

\* The identifier of a new agent: one that no row carries.
FreshAgentId(agents) ==
    LET InUse(n) == \E k \in DOMAIN agents : agents[k].id = AgentIdPool[n]
    IN  AgentIdPool[CHOOSE n \in 1..(Len(agents) + 1) :
                        ~InUse(n) /\ \A j \in 1..(n - 1) : InUse(j)]

\* self.server.create_agent(user_id=..., name=...): a new row under the given
\* name; the server does not look at the names in use.
server_create_agent(agents, user_id, name) ==
    Append(agents, [id |-> FreshAgentId(agents), name |-> name, user_id |-> user_id])

\* self.server.delete_agent(user_id=..., agent_id=..., agent_name=...): the
\* user's agent that the id, or without an id the name, designates is removed.
server_delete_agent(agents, user_id, agent_id, agent_name) ==
    SelectSeq(agents, LAMBDA a :
        ~(/\ a.user_id = user_id
          /\ IF agent_id # None THEN a.id = agent_id ELSE a.name = agent_name))


\* name and self.agent_exists(agent_name=name): a name that is not truthy is
\* the value of the expression; else the outcome of agent_exists, which lists
\* the agents and subscripts the listing.
NameTaken(name, existing) ==
    IF ~Truthy(name) THEN Return(PyBool(FALSE))
    ELSE AgentListed(existing, None, name)

\* The whole call: the look-up of the name (which lists the agents, clearing
\* the buffer), the refusal of a taken name, else clear and create. A look-up
\* that raises ends the call before the server is asked to create.
LocalCreateAgent(t) ==
    /\ MayStart(t)
    /\ \E i \in ClientsOf(t), name \in CreateNames :
          /\ local[i].constructed
          /\ LET uid == local[i].user_id
                 existing == ListAgentsResponse(list_agents(ms.agents, uid))
                 guard == NameTaken(name, existing)
                 refused == guard.kind = "raise" \/ guard.value.val
                 lookup == IF Truthy(name) THEN <<"list_agents">> ELSE <<>>
             IN  \E given \in IF Truthy(name) THEN {name} ELSE GeneratedNames :
                    /\ ~refused => Len(ms.agents) < MaxAgents
                    /\ ms' = IF refused THEN ms
                             ELSE [ms EXCEPT !.agents = server_create_agent(@, uid, given)]
                    /\ interface' = [interface EXCEPT ![InterfaceOf(i)] = <<>>]
                    /\ call' = [Started(t, i, "create_agent", call[t].epoch) EXCEPT
                                  ![t].pc = "done",
                                  ![t].arg = name,
                                  ![t].server = lookup \o (IF refused THEN <<>>
                                                           ELSE <<"create_agent">>),
                                  ![t].outcome =
                                      IF guard.kind = "raise" THEN guard
                                      ELSE IF guard.value.val
                                      THEN Raise("ValueError",
                                                 Text("Agent with name already exists"))
                                      ELSE Return([type |-> "AgentState", name |-> given])]
    /\ UNCHANGED <<local, serial>>
    /\ UNCHANGED <<client, pc, op, args, sent, resp, outcome, job, script, queries,
                   sleeps, pager>>

\* -------------------------------- LocalClient.update_agent and save_agent

\* self.server.update_agent(agent_state), self.server.save_agent(agent): the
\* agent is updated in place; the row that carries the id of the state takes
\* the name and the user id of the state.
server_update_agent(agents, agent_state) ==
    [k \in DOMAIN agents |->
        IF agents[k].id = agent_state.id
        THEN [id |-> agent_state.id, name |-> agent_state.name,
              user_id |-> agent_state.user_id]
        ELSE agents[k]]

\* The whole call of either: the state of an agent of the table (its id, its
\* user), under a name of the caller's choice, is handed to the server; no
\* look-up of the name, no clear of the buffer.
LocalUpdateAgent(t) ==
    /\ MayStart(t)
    /\ \E i \in ClientsOf(t), o \in {"update_agent", "save_agent"},
          k \in DOMAIN ms.agents, name \in CreateNames \ {None} :
          /\ local[i].constructed
          /\ ms' = [ms EXCEPT !.agents =
                       server_update_agent(@, [id |-> ms.agents[k].id, name |-> name,
                                               user_id |-> ms.agents[k].user_id])]
          /\ call' = [Started(t, i, o, call[t].epoch) EXCEPT
                        ![t].pc = "done",
                        ![t].server = <<o>>,
                        ![t].outcome = Return(PyNone)]
    /\ UNCHANGED <<local, interface, serial>>
    /\ UNCHANGED <<client, pc, op, args, sent, resp, outcome, job, script, queries,
                   sleeps, pager>>

\* ------------------------------------------------ LocalClient.delete_agent

\* The whole call: the arguments are handed to the server; the buffer is not
\* cleared. The caller names the agent by its id or by its name.
LocalDeleteAgent(t) ==
    /\ MayStart(t)
    /\ \E i \in ClientsOf(t),
          agent_id \in {None} \cup {ms.agents[k].id : k \in DOMAIN ms.agents},
          agent_name \in CreateNames \cup GeneratedNames :
          /\ local[i].constructed
          /\ (agent_id = None) # (agent_name = None)
          /\ ms' = [ms EXCEPT !.agents =
                       server_delete_agent(@, local[i].user_id, agent_id, agent_name)]
          /\ call' = [Started(t, i, "delete_agent", call[t].epoch) EXCEPT
                        ![t].pc = "done",
                        ![t].server = <<"delete_agent">>,
                        ![t].outcome = Return(PyNone)]
    /\ UNCHANGED <<local, interface, serial>>
    /\ UNCHANGED <<client, pc, op, args, sent, resp, outcome, job, script, queries,
                   sleeps, pager>>

\* ------------------------------------- operations a strategy does not implement

\* The operations of AbstractClient.
AbstractOps ==
    {"list_agents", "agent_exists", "create_agent", "rename_agent", "delete_agent",
     "get_agent", "get_agent_config", "update_agent", "save_agent",
     "get_user", "create_user",
     "get_preset", "add_default_presets", "create_preset", "delete_preset", "list_presets",
     "get_agent_memory", "update_agent_core_memory",
     "user_message", "run_command", "save",
     "get_agent_archival_memory", "insert_archival_memory", "delete_archival_memory",
     "get_messages", "send_message",
     "list_humans", "create_human", "get_human", "add_human", "update_human",
     "delete_human", "list_personas", "create_persona", "add_persona",
     "list_tools", "create_tool",
     "list_sources", "delete_source", "load_file_into_source", "create_source",
     "attach_source_to_agent", "detach_source",
     "list_models", "get_config"}

\* The operations of AbstractClient that RESTClient overrides.
RestDefines ==
    AbstractOps \ {"get_agent", "create_human", "create_persona", "list_tools",
                   "create_tool"}

\* The operations of AbstractClient that LocalClient overrides.
LocalDefines ==
    AbstractOps \ {"rename_agent", "get_agent", "insert_archival_memory",
                   "delete_archival_memory", "get_messages", "send_message",
                   "create_human", "create_persona", "list_tools", "create_tool",
                   "load_file_into_source", "detach_source", "list_models"}

\* Overrides whose whole body is "raise NotImplementedError".
RaisesInBody(backend) == IF backend = "rest" THEN {"save"} ELSE {}

\* The operations the strategy does not implement: those it inherits from
\* AbstractClient and those it overrides only to raise.
Unimplemented(backend) ==
    (AbstractOps \ (IF backend = "rest" THEN RestDefines ELSE LocalDefines))
        \cup RaisesInBody(backend)


\* A slip: an abstract body that is "pass".
AbstractBody_Pass(o) == Return(PyNone)

\* The body of every AbstractClient method, and of RESTClient.save.
AbstractBody(o) == Raise("NotImplementedError", Text(""))

\* A call of an operation the strategy does not implement.
AbstractCall ==
    /\ Quiet
    /\ \E backend \in {"rest", "local"} :
          \E o \in Unimplemented(backend) :
             /\ op' = o
             /\ args' = [backend |-> backend]
             /\ sent' = <<>>
             /\ resp' = NoResponse
             /\ outcome' = AbstractBody(o)
             /\ pc' = "done"
    /\ UNCHANGED <<client, job, script, queries, sleeps, pager, localVars>>

\* ---------------------------------------------------------- the caller

\* The caller, having received the outcome, goes on to its next call.
NextCall ==
    /\ pc = "done"
    /\ pc' = "idle"
    /\ op' = None
    /\ args' = [backend |-> None]
    /\ sent' = <<>>
    /\ resp' = NoResponse
    /\ outcome' = NoOutcome
    /\ job' = NoJob
    /\ script' = NoScript
    /\ queries' = 0
    /\ sleeps' = 0
    /\ pager' = NoPager
    /\ UNCHANGED <<client, localVars>>

Init ==
    /\ client \in Clients
    /\ pc = "idle"
    /\ op = None
    /\ args = [backend |-> None]
    /\ sent = <<>>
    /\ resp = NoResponse
    /\ outcome = NoOutcome
    /\ job = NoJob
    /\ script = NoScript
    /\ queries = 0
    /\ sleeps = 0
    /\ pager = NoPager
    /\ ms = EmptyStore
    /\ local = [i \in Instances |-> NoClient]
    /\ interface = [h \in Instances |-> <<>>]
    /\ call = [t \in Threads |-> IdleCall]
    /\ serial = TRUE

Next ==
    \/ LoadFileIntoSource
    \/ PollStatus
    \/ Sleep
    \/ RemoteCall
    \/ RestAgentExists
    \/ LocalAgentExists
    \/ RestCreateAgent
    \/ RestGetAgentConfig
    \/ RestSaveAgent
    \/ RestListSources
    \/ RestCreateSource
    \/ RestDeleteSource
    \/ RestCreatePreset
    \/ StartPaging
    \/ FetchPage
    \/ NextCall

Spec == Init /\ [][Next]_vars

\* The scheduler runs the calling thread: a call in its loop takes its next
\* step (the status query returns, the sleep ends).
FairSpec == Spec /\ WF_vars(PollStatus) /\ WF_vars(Sleep)

\* ------------------------------------------------ the embedded strategy

\* An agent an earlier session created for the user.
StoredAgents(user_id) ==
    {<<>>, <<[id |-> "agent-1", name |-> "name-1", user_id |-> user_id]>>}

\* A metadata store as earlier sessions may have left it: empty, or holding
\* the record of one user, with or without an agent of that user.
InitialStores ==
    {EmptyStore} \cup
    UNION {{[users |-> <<u>>, presets |-> {u.id}, agents |-> a] :
               a \in StoredAgents(u.id)} : u \in StoredUsers}

\* The variables of the remote strategy, at rest.
RemoteIdle ==
    /\ client = RESTClient("http://a", "tok-a")
    /\ pc = "idle"
    /\ op = None
    /\ args = [backend |-> None]
    /\ sent = <<>>
    /\ resp = NoResponse
    /\ outcome = NoOutcome
    /\ job = NoJob
    /\ script = NoScript
    /\ queries = 0
    /\ sleeps = 0
    /\ pager = NoPager

\* Before any LocalClient is constructed.
LocalInit ==
    /\ RemoteIdle
    /\ ms \in InitialStores
    /\ local = [i \in Instances |-> NoClient]
    /\ interface = [h \in Instances |-> <<>>]
    /\ call = [t \in Threads |-> IdleCall]
    /\ serial = TRUE

\* Construction and the operations a strategy lacks, one call at a time.
LocalNext ==
    \/ \E i \in Instances : LocalClientInit(i)
    \/ AbstractCall
    \/ NextCall

LocalSpec == LocalInit /\ [][LocalNext]_vars

\* Construction and the calls that change the agents of the store
\* (create_agent, delete_agent, update_agent, save_agent), one call at a time.
AgentNext ==
    \/ \E i \in Instances : LocalClientInit(i)
    \/ \E t \in Threads : LocalCreateAgent(t)
    \/ \E t \in Threads : LocalDeleteAgent(t)
    \/ \E t \in Threads : LocalUpdateAgent(t)
    \/ \E t \in Threads : Forget(t)

AgentSpec == LocalInit /\ [][AgentNext]_vars

\* LocalClient(auto_save=...) for the anonymous user, as constructed.
Constructed(auto_save) ==
    [constructed |-> TRUE, user_id |-> AnonClientId, auto_save |-> auto_save,
     init |-> Return(PyNone)]

\* After the construction of two LocalClient objects on an empty store.
MessagingInit ==
    /\ RemoteIdle
    /\ ms = [users |-> <<User(AnonClientId)>>, presets |-> {AnonClientId}, agents |-> <<>>]
    /\ interface = [h \in Instances |-> <<>>]
    /\ call = [t \in Threads |-> IdleCall]

\* The calls that go through the queuing interface.
MessagingNext ==
    \/ \E t \in Threads : UserMessage(t)
    \/ \E t \in Threads : RunCommand(t)
    \/ \E t \in Threads : ServerEmit(t)
    \/ \E t \in Threads : UserMessageReturn(t)
    \/ \E t \in Threads : RunCommandReturn(t)
    \/ \E t \in Threads : ClearAndForward(t)
    \/ \E t \in Threads : ClearAndForwardReturn(t)
    \/ \E t \in Threads : Forget(t)

\* One LocalClient call at a time.
SerialInit ==
    /\ MessagingInit
    /\ local \in [Instances -> {Constructed(a) : a \in BOOLEAN}]
    /\ serial = TRUE

SerialSpec == SerialInit /\ [][MessagingNext]_vars

\* Calls of several threads interleaved, on objects without auto_save.
ConcInit ==
    /\ MessagingInit
    /\ local = [i \in Instances |-> Constructed(FALSE)]
    /\ serial = FALSE

ConcSpec == ConcInit /\ [][MessagingNext]_vars

\* ------------------------------------------------------------ properties

\* The states of a load_file_into_source call.
InLoadFile == op = "load_file_into_source"
LoadFileDone == InLoadFile /\ pc = "done"

\* The last response is the answer to a status query and holds a job.
PolledJob == InLoadFile /\ queries >= 1 /\ resp.body.shape = "model"

\* C1: in blocking mode load_file_into_source returns normally only with a
\* job whose status is completed, whatever statuses the backend answers; it
\* never returns a pending, running or failed job.
BlockingReturnsOnlyCompleted ==
    (LoadFileDone /\ args.blocking /\ outcome.kind = "return")
        => /\ outcome.value \in Jobs
           /\ outcome.value.status = "completed"
           /\ queries >= 1

\* C1 witness: a blocking call returned a completed job after more than one
\* status query.
BlockingReturnedCompleted ==
    /\ LoadFileDone /\ args.blocking /\ outcome.kind = "return"
    /\ outcome.value.status = "completed"
    /\ queries >= 2

\* C2: when the poller observes a failed job, the call ends by raising the
\* job-failed error whose interpolated payload is that job's metadata, and the
\* failed job is not returned (nor polled again).
FailedRaisesWithMetadata ==
    (PolledJob /\ resp.body.job.status = "failed")
        => /\ pc = "done"
           /\ outcome = Raise("ValueError", [prefix |-> "Job failed: ",
                                             metadata |-> resp.body.job.metadata])

\* C2 witness: a failed job with metadata {"reason": "bad encoding"} was
\* observed after a sleep and raised with that metadata.
FailedRaisedBadEncoding ==
    /\ PolledJob /\ resp.body.job.status = "failed"
    /\ resp.body.job.metadata = <<"reason", "bad encoding">>
    /\ sleeps >= 1
    /\ outcome.kind = "raise"
    /\ outcome.msg.metadata = <<"reason", "bad encoding">>

\* A terminal status has been observed by the poller.
ObservedTerminal == PolledJob /\ resp.body.job.status \in TerminalStatus

\* The call is inside its polling loop.
InLoop == InLoadFile /\ pc \in {"polling", "sleeping"}

\* C3: a blocking call against a backend that reaches a terminal status ends,
\* with exactly the outcome of that status (return on completed, raise on
\* failed), at the query that observed it and with no status query after it;
\* against a backend that stays non-terminal for ever the call never ends and
\* its next step stays enabled (no timeout, no attempt bound).
PollerEndsExactlyOnTerminal ==
    /\ (InLoop /\ ReportsTerminal(script)) ~> (pc = "done")
    /\ []((LoadFileDone /\ queries >= 1 /\ ReportsTerminal(script))
            => /\ queries = script.k + 1
               /\ ObservedTerminal
               /\ (script.final = "completed") = (outcome.kind = "return")
               /\ (script.final = "failed") = (outcome.kind = "raise"))
    /\ [][ObservedTerminal => (queries' = queries \/ pc' = "idle")]_vars
    /\ []((InLoadFile /\ script.forever /\ script.garble = 0)
            => (InLoop /\ ENABLED (PollStatus \/ Sleep)))

\* C3 witness: a call ended by raising at the query that followed two
\* non-terminal answers.
PollerEndedOnFailed ==
    /\ LoadFileDone /\ ReportsTerminal(script)
    /\ script.k = 2 /\ script.final = "failed"
    /\ queries = 3
    /\ outcome.kind = "raise"

\* C4: a blocking call against a backend that answers non-terminal exactly k
\* times and then completed returns after exactly k + 1 status queries and
\* exactly k sleeps: one sleep follows each non-terminal observation and none
\* follows the terminal one.
ExactPollCounts ==
    /\ (LoadFileDone /\ args.blocking /\ outcome.kind = "return")
          => (queries = script.k + 1 /\ sleeps = script.k)
    /\ (InLoadFile /\ pc = "polling" /\ queries < MaxCount) => sleeps = queries
    /\ (InLoadFile /\ pc = "sleeping" /\ queries < MaxCount) => sleeps = queries - 1

\* C4 witness: running twice, then completed: three queries, two sleeps.
ReturnedAfterTwoSleeps ==
    /\ LoadFileDone /\ args.blocking /\ outcome.kind = "return"
    /\ script.k = 2
    /\ queries = 3
    /\ sleeps = 2

\* C5: with blocking disabled the call returns the job of the upload response
\* unchanged, after the one upload request, no status query and no sleep,
\* whatever the job's status.
NonBlockingReturnsUploadJob ==
    (InLoadFile /\ ~args.blocking)
        => /\ pc = "done"
           /\ queries = 0
           /\ sleeps = 0
           /\ Len(sent) <= 1
           /\ (args.exists /\ resp.code = HTTP_OK /\ resp.body.shape = "model")
                 => (outcome = Return(resp.body.job) /\ Len(sent) = 1)

\* C5 witness: a non-blocking call returned a job that is still running.
NonBlockingReturnedRunning ==
    /\ LoadFileDone /\ ~args.blocking
    /\ outcome = Return([id |-> "job-1", status |-> "running", metadata |-> <<>>])
    /\ Len(sent) = 1 /\ queries = 0 /\ sleeps = 0

\* The call ended with a remote failure that carries the response body.
RemoteFailure ==
    /\ outcome.kind = "raise"
    /\ outcome.exc \in {"ValueError", "AssertionError"}
    /\ "text" \in DOMAIN outcome.msg
    /\ outcome.msg.text = resp.body

\* C6: for every remote operation, a response whose status code is not the
\* operation's OK code ends the call with a remote failure carrying the
\* response body, and nothing built from the response is returned.
NonOkIsRemoteFailure ==
    (pc = "done" /\ op \in SimpleOps \cup {"agent_exists"} /\ Len(sent) = 1
        /\ resp # NoResponse /\ resp.code \notin OkCodes(op))
        => RemoteFailure

\* C7: an upload answered with a status other than 200 ends the call, in
\* either mode, by raising the upload failure with the response body: no
\* status query, no sleep, no job.
UploadFailureEndsCall ==
    (InLoadFile /\ args.exists /\ queries = 0 /\ resp.code # HTTP_OK)
        => /\ pc = "done"
           /\ outcome = Raise("ValueError",
                              Message("Failed to upload file to source: ", resp.body))
           /\ sleeps = 0
           /\ job = NoJob
           /\ Len(sent) = 1

\* C7 witness: a blocking call whose upload was answered 500 with a body that
\* does hold a job.
BlockingUploadRejected ==
    /\ LoadFileDone /\ args.blocking /\ args.exists
    /\ resp.code = 500 /\ resp.body.shape = "model"
    /\ outcome.kind = "raise"
    /\ queries = 0

\* C8: on either backend, agent_exists with both or neither of agent_id and
\* agent_name signals invalid arguments and does not query the backend.
AgentExistsNeedsExactlyOne ==
    (pc = "done" /\ op = "agent_exists"
        /\ Truthy(args.agent_id) = Truthy(args.agent_name))
        => (outcome.kind = "raise" /\ outcome.exc = "ValueError" /\ sent = <<>>)

\* C9: RESTClient.create_agent with a non-null embedding_config or llm_config
\* raises the override error before any request: nothing is sent, no response
\* is read; without an override exactly one request is sent.
CreateAgentRejectsOverride ==
    (pc = "done" /\ op = "create_agent")
        => IF args.embedding_config # None \/ args.llm_config # None
           THEN /\ outcome.kind = "raise"
                /\ outcome.exc = "ValueError"
                /\ sent = <<>>
                /\ resp = NoResponse
           ELSE Len(sent) = 1

\* C9 witness: only llm_config was overridden and the call was rejected.
LlmOverrideRejected ==
    /\ pc = "done" /\ op = "create_agent"
    /\ args.embedding_config = None /\ args.llm_config # None
    /\ outcome.kind = "raise"
    /\ sent = <<>>

\* C10: the remote existence check answers False for 404, True for 200 and
\* raises the failure with the response body for every other status; it
\* returns a boolean for no other status.
ExistsStatusMapping ==
    (pc = "done" /\ op = "agent_exists" /\ args.backend = "rest")
        => /\ (resp.code = HTTP_NOT_FOUND) = (outcome = Return(PyBool(FALSE)))
           /\ (resp.code = HTTP_OK) = (outcome = Return(PyBool(TRUE)))
           /\ (resp.code \notin {HTTP_OK, HTTP_NOT_FOUND})
                 = (outcome = Raise("ValueError",
                                    Message("Failed to check if agent exists: ", resp.body)))

\* C10 witness: the check was answered 500 and raised; it gave no boolean.
ExistsRaisedOnServerError ==
    /\ pc = "done" /\ op = "agent_exists" /\ args.backend = "rest"
    /\ resp.code = 500
    /\ outcome.kind = "raise"

\* ------------------------------------------- properties: the remote adapter

\* The call was refused on its arguments, before any request was built.
RefusedOnArguments ==
    \/ op = "create_agent" /\ OverridesConfig(args.embedding_config, args.llm_config)
    \/ op = "load_file_into_source" /\ ~args.exists

\* C16: every call of a remote operation issues exactly one HTTP request
\* (the status polls of a blocking file load aside), and every request goes
\* to the base URL and carries the headers fixed at construction;
\* delete_source and create_preset are no exception.
OneRequestPerCall ==
    (pc = "done" /\ args.backend = "rest" /\ ~RefusedOnArguments)
        => /\ Len(sent) = 1
           /\ \A k \in DOMAIN sent :
                 sent[k].url[1] = client.base_url /\ sent[k].headers = client.headers

\* C17: a wire AgentState turned into the domain form by
\* get_agent_response_to_state and back into the wire form by save_agent
\* keeps its identifier, its name and its creation time in whole seconds.
RoundTripKeepsIdentity ==
    (pc = "done" /\ op = "save_agent")
        => /\ UUID(sent[1].json.id) = UUID(args.origin.id)
           /\ sent[1].json.name = args.origin.name
           /\ sent[1].json.created_at = args.origin.created_at

\* An agent that came with an upper-case identifier and a creation time past
\* the epoch was saved: the identifier went out in canonical spelling.
SavedRespelledAgent ==
    /\ pc = "done"
    /\ op = "save_agent"
    /\ args.origin.id = "A1"
    /\ sent[1].json.id = "a1"
    /\ args.origin.created_at = 2000
    /\ args.agent_state.created_at.us = 2000 * MicrosPerSecond

\* The creation times in the body of the response, and in the returned
\* sources.
WireTimes ==
    IF op = "list_sources" THEN {resp.body.sources[k].created_at : k \in DOMAIN resp.body.sources}
    ELSE {resp.body.source.created_at}
ReturnedTimes ==
    IF op = "list_sources"
    THEN {outcome.value.items[k].created_at : k \in DOMAIN outcome.value.items}
    ELSE {outcome.value.created_at}

\* C18: list_sources and create_source alike hand back creation times as
\* datetimes: a wire value that does not match the timestamp format is
\* rejected with an error, and the raw wire string is never returned.
SourceTimesCanonical ==
    (/\ pc = "done"
     /\ op \in {"list_sources", "create_source"}
     /\ args.backend = "rest"
     /\ resp.code = HTTP_OK
     /\ resp.body.shape = "model")
        => IF \A text \in WireTimes : MatchesFormat(text, DateFormat)
           THEN outcome.kind = "return" /\ \A t \in ReturnedTimes : t.type = "datetime"
           ELSE outcome.kind = "raise" /\ outcome.exc = "ValueError"

\* No identifier occurs twice in the sequence.
NoRepeat(s) == \A j, k \in DOMAIN s : s[j] = s[k] => j = k

\* The last call forwarded the caller's before, after and limit.
Forwarded ==
    IF args.backend = "rest"
    THEN sent[1].params = [limit |-> pager.limit, before |-> pager.before.hex,
                           after |-> pager.asked.hex]
    ELSE sent[1].kwargs = [after |-> pager.asked, before |-> pager.before,
                           limit |-> pager.limit]

\* C19: paging through archival memory with after=X and limit=N, then with
\* after set to the last id of the page before, until a page is empty,
\* returns no identifier twice and in total the set of one unbounded query
\* from X; on both strategies each call forwards before, after and limit as
\* the caller gave them.
PagingCoversOnce ==
    pager.active
        => /\ NoRepeat(pager.seen)
           /\ sent # <<>> => Forwarded
           /\ (pc = "done" /\ outcome.kind = "return")
                 => Range(pager.seen) =
                        Range(CursorQuery(pager.records, pager.before.hex, pager.first.hex,
                                          Len(pager.records)))

\* A remote caller paged from a cursor X to the end in more than one page.
PagedRemoteFromCursor ==
    /\ pager.active
    /\ pc = "done"
    /\ outcome.kind = "return"
    /\ args.backend = "rest"
    /\ pager.first # NoId
    /\ Len(pager.seen) > pager.limit

\* A delete_source call that got as far as its delete request.
DeleteSent == pc = "done" /\ op = "delete_source" /\ Len(sent) = 2

\* The id the delete request names, and the positions of the listed sources
\* that carry the name asked for.
DeleteTarget == sent[2].url[3]
NamedRows == {k \in DOMAIN resp.listed : resp.listed[k].name = args.source_name}

\* C22: delete_source(source_name) deletes at most the source of that name:
\* the delete request names the id of the first listed source that carries the
\* name, and the all-zero id, which no listed source has, when none does; no
\* listed source of another name has the id the request names.
DeleteTargetsOnlyNamed ==
    DeleteSent =>
        /\ NamedRows = {} =>
              /\ DeleteTarget = ZeroUUID
              /\ \A k \in DOMAIN resp.listed : resp.listed[k].id # DeleteTarget
        /\ NamedRows # {} =>
              /\ \E k \in NamedRows :
                    /\ \A j \in NamedRows : k <= j
                    /\ DeleteTarget = resp.listed[k].id
        /\ \A k \in DOMAIN resp.listed :
              resp.listed[k].id = DeleteTarget => resp.listed[k].name = args.source_name

\* C22 witness: two listed sources carry the name; the first one was deleted.
DeletedFirstOfTwoNamed ==
    /\ DeleteSent
    /\ NamedRows = {1, 2}
    /\ DeleteTarget = resp.listed[1].id
    /\ resp.listed[2].id # DeleteTarget
    /\ outcome = Return(PyNone)

\* ------------------------------------------- properties: the embedded strategy

\* The rows of the users table that carry the id.
UserRows(id) == {k \in DOMAIN ms.users : ms.users[k].id = id}

\* C11: construction of a LocalClient is idempotent for the user record: no
\* construction raises, and after any number of constructions for a user id
\* the store holds exactly one user record with that id.
ConstructionUpsertsUser ==
    \A i \in Instances :
        /\ local[i].init.kind # "raise"
        /\ local[i].constructed => Cardinality(UserRows(local[i].user_id)) = 1

\* Two objects were constructed for one user id (the later construction found
\* the record and updated it); the store holds the one record, and the other
\* user's record besides.
SecondConstructionUpdated ==
    /\ local[1].constructed
    /\ local[2].constructed
    /\ local[1].user_id = local[2].user_id
    /\ Cardinality(UserRows(local[1].user_id)) = 1
    /\ Len(ms.users) = 2

\* C21: re-constructing a LocalClient for a user id that has a User record
\* leaves the record's default-agent reference and policy-acceptance flag as
\* they were: no step changes either field of a record the store holds.
ReconstructionKeepsUserFields ==
    [][\A k \in DOMAIN ms.users :
          /\ k \in DOMAIN ms'.users
          /\ ms'.users[k].id = ms.users[k].id
          /\ ms'.users[k].default_agent = ms.users[k].default_agent
          /\ ms'.users[k].policies_accepted = ms.users[k].policies_accepted]_vars

\* A user_message call that has returned.
Answered(t) == call[t].pc = "done" /\ call[t].op = "user_message"

\* The messages a returned user_message call handed back: those of its
\* UserMessageResponse, none when it returned None.
Returned(t) ==
    IF call[t].outcome = Return(PyNone) THEN <<>> ELSE call[t].outcome.value.messages

\* C12: under one call at a time, every user_message call returns a
\* UserMessageResponse holding exactly the messages the server emitted during
\* that call, in the order of emission, and none of an earlier call.
ReturnsExactlyOwnMessages ==
    \A t \in Threads :
        Answered(t) =>
            call[t].outcome = Return([type |-> "UserMessageResponse",
                                      messages |-> call[t].emitted])

\* C13: a user_message call hands back something other than its own emissions
\* only when another call on the same object overlapped it; with two
\* interleaved calls on one object that happens.
MisdeliveryNeedsOverlap ==
    \A t \in Threads :
        (Answered(t) /\ ~local[call[t].inst].auto_save /\ Returned(t) # call[t].emitted)
            => call[t].overlapped

\* Two interleaved user_message calls on one object have both returned: the
\* first got a message emitted for the second, and the second, whose clear
\* came before, does not get that message of its own.
CrossedDelivery ==
    /\ Answered(1)
    /\ Answered(2)
    /\ call[1].inst = call[2].inst
    /\ ~local[call[1].inst].auto_save
    /\ \E m \in Range(Returned(1)) : m.thread = 2
    /\ \E m \in Range(call[2].emitted) : m \notin Range(Returned(2))

\* The object thread t is calling, or was calling when it took the step.
Callee(t) == IF call[t].pc = "idle" THEN call'[t].inst ELSE call[t].inst

\* C14: two LocalClient objects share no queuing interface: a step of a call
\* on one object (its clear, an emission of its server, its drain) leaves the
\* buffer of every other object unchanged, also when calls on the two objects
\* are interleaved.
OtherBuffersUntouched ==
    [][\A t \in Threads :
          call'[t] # call[t] =>
              \A j \in Instances \ {Callee(t)} : interface'[j] = interface[j]]_vars

\* Calls on the two objects are interleaved: both are in progress, and each
\* object's buffer holds the emissions of its own call.
InterleavedOnTwoObjects ==
    /\ call[1].pc = "invoke"
    /\ call[2].pc = "invoke"
    /\ call[1].inst # call[2].inst
    /\ call[1].emitted # <<>>
    /\ call[2].emitted # <<>>
    /\ interface[call[1].inst] = call[1].emitted
    /\ interface[call[2].inst] = call[2].emitted

\* C15: a call of an operation that the strategy in use does not implement
\* raises NotImplementedError, sends nothing to a backend and changes no
\* state; get_messages, list_models and load_file_into_source of the local
\* strategy and save of the remote one are such operations.
UnimplementedRaises ==
    [][(pc = "idle" /\ pc' = "done" /\ op' \in Unimplemented(args'.backend))
          => /\ outcome' = Raise("NotImplementedError", Text(""))
             /\ sent' = <<>>
             /\ UNCHANGED <<client, ms, local, interface, call>>
             /\ {"get_messages", "list_models", "load_file_into_source"}
                    \subseteq Unimplemented("local")
             /\ "save" \in Unimplemented("rest")]_vars

\* get_messages was called on a constructed LocalClient and raised.
LocalGetMessagesRaised ==
    /\ pc = "done"
    /\ op = "get_messages"
    /\ args.backend = "local"
    /\ outcome.kind = "raise"
    /\ outcome.exc = "NotImplementedError"
    /\ \E i \in Instances : local[i].constructed

\* No two agents of one user share a name.
AgentNamesUnique ==
    \A j, k \in DOMAIN ms.agents :
        (ms.agents[j].user_id = ms.agents[k].user_id /\ ms.agents[j].name = ms.agents[k].name)
            => j = k

\* Thread t made a create_agent call under a name in this step.
NamedCreate(t) ==
    /\ call[t].pc = "idle"
    /\ call'[t].op = "create_agent"
    /\ Truthy(call'[t].arg)

\* The name of that call belonged to an agent of the caller's user.
NameInUse(t) ==
    \E k \in DOMAIN ms.agents :
        /\ ms.agents[k].name = call'[t].arg
        /\ ms.agents[k].user_id = local[call'[t].inst].user_id

SavedAfterMessage == <<"user_message", "save_agents">>

\* C23: user_message has the server save all agents exactly when auto_save is
\* set, and only after the server has processed the message: while the server
\* is at work nothing was saved; a call returned under auto_save has saved
\* after the message, returned None and left the buffer undrained; a call
\* returned without auto_save has saved nothing, returned the drained
\* messages and left the buffer empty.
SaveExactlyUnderAutoSave ==
    \A t \in Threads :
        LET q == interface[InterfaceOf(call[t].inst)]
        IN  /\ (InProgress(t) /\ call[t].op = "user_message")
                  => call[t].server = <<"user_message">>
            /\ (Answered(t) /\ local[call[t].inst].auto_save)
                  => /\ call[t].server = SavedAfterMessage
                     /\ call[t].outcome = Return(PyNone)
                     /\ q = call[t].emitted
            /\ (Answered(t) /\ ~local[call[t].inst].auto_save)
                  => /\ call[t].server = <<"user_message">>
                     /\ call[t].outcome = Return([type |-> "UserMessageResponse",
                                                  messages |-> call[t].emitted])
                     /\ q = <<>>

\* C23 witness: a call under auto_save returned None after the server had
\* emitted its messages and saved; the messages are still in the buffer.
SavedAndLeftUndrained ==
    \E t \in Threads :
        /\ Answered(t)
        /\ local[call[t].inst].auto_save
        /\ Len(call[t].emitted) = MaxEmit
        /\ interface[InterfaceOf(call[t].inst)] = call[t].emitted
        /\ call[t].server = SavedAfterMessage
        /\ call[t].outcome = Return(PyNone)

====
